---- MODULE Spec2Model ----
(***************************************************************************)
(* gien: export a Github issue tracker and wiki to a local mbox.           *)
(* Model of src/gien.py: the pure message builders (hexhex, h_*,           *)
(* render_message, make_thread, thread_wiki) as operators on strings, and  *)
(* main() as a state machine: option parsing, fetch, the locked store, the *)
(* ThreadPoolExecutor.map fan-out with its in-order drain, the wiki        *)
(* thread, flush/unlock/close.                                             *)
(***************************************************************************)
EXTENDS Integers, Sequences, FiniteSets, TLC

\* ------------------------------------------------------------------ bounds
MaxIssues   == 2    \* longest issue list returned by the tracker
MaxComments == 2    \* longest comment sequence of one issue
MaxThreads  == 2    \* largest --threads value tried
MaxRuns     == 2    \* the program is run at most this many times on one source

\* -------------------------------------------------------- string helpers
\* str.replace(old, new) for one-character old/new
RECURSIVE replace(_, _, _)
replace(s, old, new) ==
    IF s = "" THEN ""
    ELSE (IF SubSeq(s, 1, 1) = old THEN new ELSE SubSeq(s, 1, 1))
         \o replace(SubSeq(s, 2, Len(s)), old, new)

\* str.endswith(suffix)
endswith(s, suffix) ==
    /\ Len(s) >= Len(suffix)
    /\ SubSeq(s, Len(s) - Len(suffix) + 1, Len(s)) = suffix

\* str.find(sub): lowest 0-based index of sub in s, -1 when absent
find(s, sub) ==
    LET hits == {i \in 1..(Len(s) - Len(sub) + 1) :
                    SubSeq(s, i, i + Len(sub) - 1) = sub}
    IN  IF hits = {} THEN -1
        ELSE (CHOOSE i \in hits : \A j \in hits : i <= j) - 1

\* ------------------------------------------------------------ hexhex (md5)
\* hexdigest of md5 over the utf-8 bytes, tabulated on the strings the model
\* hashes (repository full names and page paths under both temp directories)
hexhex(res) ==
    CASE res = "acme/widgets" -> "685c5fbfef539419518c220aff9e4e6c"
      [] res = "2ion/gien"    -> "abafe19876c5694495f3bf4bb20cbd5a"
      [] res = "/tmp/tmpa1b2c3d4/Home.md"    -> "15e8a26b8d678f6ad20a62cf77901fcf"
      [] res = "/tmp/tmpa1b2c3d4/FAQ.md"     -> "d79543caa92ba9025d755faa8a33004c"
      [] res = "/tmp/tmpa1b2c3d4/notes.txt"  -> "74b07631dd0cd319cda71a0d5d10ecbb"
      [] res = "/tmp/tmpa1b2c3d4/README.txt" -> "f93fc8ed5ab6f0b1dcead24c4c34abff"
      [] res = "/tmp/tmpa1b2c3d4/docs/Guide.md"      -> "ef5a8dfcba6237fe66e595226d57404a"
      [] res = "/tmp/tmpa1b2c3d4/my.github/Setup.md" -> "c30b63c30336ebac63491a5f5b799b41"
      [] res = "/tmp/tmpa1b2c3d4/.git/HEAD"          -> "5892e90b9e70430a40fa49d02a75b55f"
      [] res = "/tmp/tmpa1b2c3d4/.git/config"        -> "1ec7449b5bfe7dda3e8a094259438d98"
      [] res = "/tmp/tmpa1b2c3d4/.git/description.md" -> "9766a4717b0428afbe448a6b1a4d490c"
      [] res = "/tmp/tmpz9y8x7w6/Home.md"    -> "d738d1bc2cb81fd77d75321604072ed1"
      [] res = "/tmp/tmpz9y8x7w6/FAQ.md"     -> "f2ac685bbf34ff27e607792eacb927a7"
      [] res = "/tmp/tmpz9y8x7w6/notes.txt"  -> "67c7255f0963aef9f95e8fe4072d5a98"
      [] res = "/tmp/tmpz9y8x7w6/README.txt" -> "0b9a5e49d113f3d469c5857c26ec1fc1"
      [] res = "/tmp/tmpz9y8x7w6/docs/Guide.md"      -> "1a3037eb28e6dc5367929e82bed84251"
      [] res = "/tmp/tmpz9y8x7w6/my.github/Setup.md" -> "c53c3e2027e1f1db858e529f8afb5cee"
      [] res = "/tmp/tmpz9y8x7w6/.git/HEAD"          -> "16aebed48fe69cb2bbb25767d6e26406"
      [] res = "/tmp/tmpz9y8x7w6/.git/config"        -> "c918a9dfae97475909f5ba5c23e1ae96"
      [] res = "/tmp/tmpz9y8x7w6/.git/description.md" -> "67caaabf426a201b8c21cb55134e4b92"

\* email.utils.formatdate(timeval), tabulated on the timestamps of the model
formatdate(timeval) ==
    CASE timeval = 1456790400 -> "Tue, 01 Mar 2016 00:00:00 -0000"
      [] timeval = 1456876800 -> "Wed, 02 Mar 2016 00:00:00 -0000"
      [] timeval = 1456963200 -> "Thu, 03 Mar 2016 00:00:00 -0000"
      [] timeval = 1457049600 -> "Fri, 04 Mar 2016 00:00:00 -0000"
      [] timeval = 1457136000 -> "Sat, 05 Mar 2016 00:00:00 -0000"
      [] timeval = 1798761600 -> "Fri, 01 Jan 2027 00:00:00 -0000"
      [] timeval = 1798848000 -> "Sat, 02 Jan 2027 00:00:00 -0000"

\* ------------------------------------------------------------- the headers
\* variant: the "/" between the issue id and the comment id is left out
h_message_id_nosep(repo, issueid, commentid) ==
    "<" \o repo \o "/issues/" \o ToString(issueid)
        \o ToString(commentid) \o "@github.com>"

h_message_id(repo, issueid, commentid) ==
    "<" \o repo \o "/issues/" \o ToString(issueid) \o "/"
        \o ToString(commentid) \o "@github.com>"

h_from(obj) == obj.user \o " <" \o obj.user \o "@noreply.github.com>"

h_date(obj) == formatdate(obj.created_at)

h_to(r) == r.full_name \o " <" \o r.name \o "@noreply.github.com>"

\* ---------------------------------------------------------- the renderer
\* Bodies on which markdown() raises: stands for any input that makes the
\* renderer fault (render_message catches every exception).
RendererFaults == {"[[renderer fault]]"}

markdown_raises(body) == body \in RendererFaults

\* markdown(body) on the bodies of the model
markdown(body) ==
    CASE body = "*me too*"   -> "<p><em>me too</em></p>"
      [] body = "# Home"     -> "<h1>Home</h1>"
      [] body = "# FAQ"      -> "<h1>FAQ</h1>"
      [] body = "# Guide"    -> "<h1>Guide</h1>"
      [] body = "# Setup"    -> "<h1>Setup</h1>"
      [] OTHER               -> "<p>" \o body \o "</p>"

\* MIMEMultipart(subtype): Content-Type and MIME-Version, no parts yet
MIMEMultipart(subtype) ==
    [headers |-> << <<"Content-Type", "multipart/" \o subtype>>,
                    <<"MIME-Version", "1.0">> >>,
     payload |-> << >>]

MIMEText(text, subtype) == [subtype |-> subtype, text |-> text]

\* Message.__contains__ / Message.__getitem__ (first header of that name)
HasHeader(m, name) == \E i \in 1..Len(m.headers) : m.headers[i][1] = name

Header(m, name) ==
    m.headers[CHOOSE i \in 1..Len(m.headers) :
                 /\ m.headers[i][1] = name
                 /\ \A j \in 1..(i - 1) : m.headers[j][1] # name][2]

\* Whether an exception leaves render_message for this body: the bare
\* "except: pass" around the two attach calls lets none through.
\* variant: no handler around the conversion
render_message_unguarded(body) == markdown_raises(body)

render_message_raises(body) == FALSE

\* kwargs is the sequence of <<keyword, value>> pairs in call order.  The
\* markdown() call comes first inside the try: when it raises, neither part
\* has been attached.
render_message(body, kwargs) ==
    LET m  == MIMEMultipart("alternative")
        mh == [m EXCEPT !.headers = @ \o
                 [i \in 1..Len(kwargs) |->
                    <<replace(kwargs[i][1], "_", "-"), kwargs[i][2]>>]]
    IN  IF markdown_raises(body)
        THEN mh
        ELSE [mh EXCEPT !.payload = << MIMEText(markdown(body), "html"),
                                       MIMEText(body, "plain") >>]

\* ----------------------------------------------------------- make_thread
\* the label loop: common_Subject += " [{}]".format(label.name)
RECURSIVE label_suffix(_)
label_suffix(labels) ==
    IF labels = << >> THEN ""
    ELSE " [" \o Head(labels) \o "]" \o label_suffix(Tail(labels))

\* variant: the closed marker is added outside "if opts.labels"
common_Subject_closed_always(opts, o) ==
    o.issue.title
    \o (IF opts.labels THEN label_suffix(o.issue.labels) ELSE "")
    \o (IF o.issue.closed_at # 0 THEN " [CLOSED]" ELSE "")

common_Subject(opts, o) ==
    o.issue.title
    \o (IF opts.labels
        THEN label_suffix(o.issue.labels)
             \o (IF o.issue.closed_at # 0 THEN " [CLOSED]" ELSE "")
        ELSE "")

common_Subject_Re(opts, o) == "Re: " \o common_Subject(opts, o)

\* the root message of an issue thread (thread[0])
issue_root(opts, r, o) ==
    render_message(o.issue.body,
        << <<"Subject", common_Subject(opts, o)>>,
           <<"From", h_from(o.issue)>>,
           <<"To", h_to(r)>>,
           <<"Date", h_date(o.issue)>>,
           <<"Message_ID", h_message_id(r.full_name, o.issue.id, 0)>> >>)

\* the reply built for one comment; common_root is thread[-1]['Message-ID']
\* read back from the root message
issue_reply(opts, r, o, comment, common_root) ==
    render_message(comment.body,
        << <<"Subject", common_Subject_Re(opts, o)>>,
           <<"From", h_from(comment)>>,
           <<"To", h_to(r)>>,
           <<"Date", h_date(comment)>>,
           <<"Message_ID", h_message_id(r.full_name, o.issue.id, comment.id)>>,
           <<"In_Reply_To", common_root>>,
           <<"References", common_root>> >>)

\* variant: the comments are visited newest first
make_thread_reversed(opts, r, o) ==
    LET root        == issue_root(opts, r, o)
        common_root == Header(root, "Message-ID")
        n           == Len(o.comments)
    IN  <<root>> \o
        [i \in 1..n |->
            issue_reply(opts, r, o, o.comments[n + 1 - i], common_root)]

\* variant: thread[-1]['Message-ID'] is read inside the loop, so each reply
\* answers the message before it
make_thread_chained(opts, r, o) ==
    LET root == issue_root(opts, r, o)
        prev(i) == IF i = 1 THEN Header(root, "Message-ID")
                   ELSE h_message_id(r.full_name, o.issue.id,
                                     o.comments[i - 1].id)
    IN  <<root>> \o
        [i \in 1..Len(o.comments) |->
            issue_reply(opts, r, o, o.comments[i], prev(i))]

make_thread(opts, r, o) ==
    LET root        == issue_root(opts, r, o)
        common_root == Header(root, "Message-ID")
    IN  <<root>> \o
        [i \in 1..Len(o.comments) |->
            issue_reply(opts, r, o, o.comments[i], common_root)]

\* whether one of the render_message calls of make_thread lets an exception
\* through (make_thread has no handler of its own)
make_thread_raises(opts, r, o) ==
    \/ render_message_raises(o.issue.body)
    \/ \E i \in 1..Len(o.comments) : render_message_raises(o.comments[i].body)

\* ----------------------------------------------------------- thread_wiki
wiki_root_msgid(repo) == hexhex(repo.full_name) \o "@wiki"

\* one page file: the body of "if ff.endswith('.md')", appended to thread.
\* "date = formatdate()" reads the clock once for every page: clock is the
\* sequence of the instants the successive reads return, and the page built
\* when thread holds n messages is the (n+1)-th read
wiki_page(repo, path, ff, body, thread, clock) ==
    LET date    == formatdate(clock[Len(thread) + 1])
        subject == "[WIKI] " \o SubSeq(ff, 1, Len(ff) - 3)
    IN  IF Len(thread) > 0
        THEN render_message(body,
                << <<"Subject", subject>>,
                   <<"From", "wiki@noreply.github.com">>,
                   <<"Message_ID", hexhex(path) \o "@" \o repo.name \o ".wiki">>,
                   <<"To", h_to(repo)>>,
                   <<"In_Reply_To", wiki_root_msgid(repo)>>,
                   <<"References", wiki_root_msgid(repo)>>,
                   <<"Date", date>> >>)
        ELSE render_message(body,
                << <<"Subject", subject>>,
                   <<"From", "wiki@noreply.github.com">>,
                   <<"Message_ID", wiki_root_msgid(repo)>>,
                   <<"To", h_to(repo)>>,
                   <<"Date", date>> >>)

\* "for ff in f": the files of one directory r, in listing order
RECURSIVE wiki_files(_, _, _, _, _)
wiki_files(repo, r, f, thread, clock) ==
    IF f = << >> THEN thread
    ELSE LET ff   == Head(f).name
             path == r \o "/" \o ff
         IN  wiki_files(repo, r, Tail(f),
                 IF endswith(ff, ".md")
                 THEN Append(thread,
                        wiki_page(repo, path, ff, Head(f).body, thread, clock))
                 ELSE thread,
                 clock)

\* "for r,d,f in os.walk(DIR)": walk is the sequence of directories in walk
\* order, each [rel, f] with rel the path below DIR
RECURSIVE wiki_walk(_, _, _, _, _)
wiki_walk(repo, DIR, walk, thread, clock) ==
    IF walk = << >> THEN thread
    ELSE LET r == DIR \o Head(walk).rel
         IN  wiki_walk(repo, DIR, Tail(walk),
                 IF find(r, ".git") > -1
                 THEN thread
                 ELSE wiki_files(repo, r, Head(walk).f, thread, clock),
                 clock)

thread_wiki(repo, DIR, walk, clock) == wiki_walk(repo, DIR, walk, << >>, clock)

\* whether one of the render_message calls of thread_wiki lets an exception
\* through
thread_wiki_raises(repo, DIR, walk) ==
    \E d \in 1..Len(walk) :
        /\ ~ (find(DIR \o walk[d].rel, ".git") > -1)
        /\ \E k \in 1..Len(walk[d].f) :
              /\ endswith(walk[d].f[k].name, ".md")
              /\ render_message_raises(walk[d].f[k].body)

\* ------------------------------------------------------ the source data
Take(s, n) == SubSeq(s, 1, IF Len(s) < n THEN Len(s) ELSE n)

\* The issues of the remote tracker, in creation order (get_issues is asked
\* for direction="asc"); comments by ascending id.  An absent closed_at
\* (None) is 0.
IssuePool ==
    << [issue |-> [id |-> 1, title |-> "Add docs",
                   body |-> "[[renderer fault]]", user |-> "alice",
                   created_at |-> 1456790400, closed_at |-> 0,
                   labels |-> << >>],
        comments |-> << [id |-> 23, body |-> "*me too*", user |-> "bob",
                         created_at |-> 1456876800] >>],
       [issue |-> [id |-> 7, title |-> "Crash on startup",
                   body |-> "It crashes", user |-> "bob",
                   created_at |-> 1456876800, closed_at |-> 1457136000,
                   labels |-> <<"bug">>],
        comments |-> << [id |-> 24, body |-> "*me too*", user |-> "alice",
                         created_at |-> 1456963200],
                        [id |-> 25, body |-> "[[renderer fault]]",
                         user |-> "carol", created_at |-> 1457049600],
                        [id |-> 26, body |-> "fixed", user |-> "bob",
                         created_at |-> 1457136000] >>],
       [issue |-> [id |-> 12, title |-> "Typo",
                   body |-> "teh", user |-> "carol",
                   created_at |-> 1456963200, closed_at |-> 0,
                   labels |-> <<"docs", "easy">>],
        comments |-> << [id |-> 3, body |-> "fixed", user |-> "alice",
                         created_at |-> 1457049600] >>],
       [issue |-> [id |-> 30, title |-> "Question",
                   body |-> "how?", user |-> "bob",
                   created_at |-> 1457049600, closed_at |-> 1457136000,
                   labels |-> << >>],
        comments |-> << >>] >>

\* the elements of a set of pool positions, ascending
RECURSIVE Ascending(_)
Ascending(S) ==
    IF S = {} THEN << >>
    ELSE LET m == CHOOSE x \in S : \A y \in S : x <= y
         IN  <<m>> \o Ascending(S \ {m})

\* the issue lists the tracker can hold: at most MaxIssues issues of the
\* pool, each with at most MaxComments comments
IssueLists ==
    { [i \in 1..Cardinality(S) |->
          [issue    |-> IssuePool[Ascending(S)[i]].issue,
           comments |-> Take(IssuePool[Ascending(S)[i]].comments, MaxComments)]]
      : S \in {T \in SUBSET (1..Len(IssuePool)) : Cardinality(T) <= MaxIssues} }

\* the cloned wiki trees, as os.walk lists them: directories top-down, each
\* with its path below the clone directory and its files in listing order
WikiWalks ==
    { << [rel |-> "", f |-> << [name |-> "Home.md", body |-> "# Home"],
                               [name |-> "FAQ.md",  body |-> "# FAQ"] >>],
         [rel |-> "/.git", f |-> << [name |-> "HEAD", body |-> "ref"],
                                    [name |-> "config", body |-> "[core]"] >>] >>,
      << [rel |-> "", f |-> << [name |-> "FAQ.md",  body |-> "# FAQ"],
                               [name |-> "notes.txt", body |-> "todo"],
                               [name |-> "Home.md", body |-> "[[renderer fault]]"] >>],
         [rel |-> "/.git", f |-> << [name |-> "HEAD", body |-> "ref"] >>] >>,
      << [rel |-> "", f |-> << [name |-> "README.txt", body |-> "readme"] >>],
         [rel |-> "/my.github", f |-> << [name |-> "Setup.md", body |-> "# Setup"] >>],
         [rel |-> "/docs", f |-> << [name |-> "Guide.md", body |-> "# Guide"] >>],
         [rel |-> "/.git", f |-> << [name |-> "config", body |-> "[core]"] >>] >>,
      << [rel |-> "", f |-> << [name |-> "notes.txt", body |-> "todo"] >>],
         [rel |-> "/.git", f |-> << [name |-> "HEAD", body |-> "ref"] >>] >>,
      << [rel |-> "", f |-> << [name |-> "Home.md", body |-> "# Home"],
                               [name |-> "FAQ.md",  body |-> "# FAQ"] >>],
         [rel |-> "/.git", f |-> << [name |-> "HEAD", body |-> "ref"] >>],
         [rel |-> "/docs", f |-> << [name |-> "Guide.md", body |-> "# Guide"] >>] >> }

\* the names TemporaryDirectory() may return
TmpDirs == {"/tmp/tmpa1b2c3d4", "/tmp/tmpz9y8x7w6"}

\* the instants formatdate() may read while the wiki is archived
ArchivalTimes == {1798761600, 1798848000}

\* the number of files of the walk with the markup suffix: thread_wiki reads
\* the clock at most that many times
RECURSIVE PageFiles(_)
PageFiles(walk) ==
    IF walk = << >> THEN 0
    ELSE Len(SelectSeq(Head(walk).f, LAMBDA x : endswith(x.name, ".md")))
         + PageFiles(Tail(walk))

\* what the successive formatdate() reads of one thread_wiki call return:
\* formatdate() reads the wall clock (time.time()), which may advance between
\* two pages and may also be set back, so the reads are in no order
Clocks(walk) == [1..PageFiles(walk) -> ArchivalTimes]

\* api.get_repo(name): the repository object
get_repo(name) ==
    CASE name = "acme/widgets" ->
            [full_name |-> "acme/widgets", name |-> "widgets",
             clone_url |-> "https://github.com/acme/widgets.git"]
      [] name = "2ion/gien" ->
            [full_name |-> "2ion/gien", name |-> "gien",
             clone_url |-> "https://github.com/2ion/gien.git"]

\* ------------------------------------------------------------ get_options
\* A command line is the record of the options given on it; the three
\* string options are absent from it when not given.
Flags ==
    [labels : BOOLEAN, archive_issues : BOOLEAN, archive_wiki : BOOLEAN,
     threads : 0..MaxThreads]

BusyFlags ==
    [labels |-> TRUE, archive_issues |-> TRUE, archive_wiki |-> TRUE,
     threads |-> 2]

Argvs ==
    { [user |-> "alice", password |-> "s3cret",
       repository |-> "acme/widgets"] @@ fl : fl \in Flags }
    \cup
    { c @@ BusyFlags :
        c \in { [user |-> "alice", password |-> "s3cret"],
                [user |-> "alice", repository |-> "acme/widgets"],
                [password |-> "s3cret", repository |-> "acme/widgets"],
                [user |-> "alice", password |-> "s3cret", repository |-> ""],
                [repository |-> "acme/widgets"] } }

\* ap.parse_args(): the defaults of add_argument; None is ""
parse_args(args) ==
    [user           |-> IF "user" \in DOMAIN args THEN args.user ELSE "",
     password       |-> IF "password" \in DOMAIN args THEN args.password ELSE "",
     repository     |-> IF "repository" \in DOMAIN args
                        THEN args.repository ELSE "2ion/gien",
     issues         |-> "all",
     output         |-> "output.mbox",
     labels         |-> args.labels,
     archive_wiki   |-> args.archive_wiki,
     archive_issues |-> args.archive_issues,
     threads        |-> args.threads]

\* the test before die() in get_options
options_missing(r) == ~ (r.user # "" /\ r.password # "" /\ r.repository # "")

\* the list comprehension of fetch_data over the issues of the tracker
fetch_data(issues) ==
    [i \in 1..Len(issues) |->
        [issue    |-> issues[i].issue,
         comments |-> issues[i].comments,
         labels   |-> issues[i].issue.labels]]

\* ------------------------------------------------------------ the program
VARIABLES
    argv,        \* the command line of the run
    remote,      \* the tracker's issues and the wiki tree (never written)
    run,         \* how many times the program has been started
    prevIds,     \* the Message-IDs appended by the previous run
    pc,          \* main()'s position
    exitcode,    \* -1 while running
    error,       \* what ended the run early, "" when nothing did
    opts, data, repo,
    mb,          \* the mbox object: opened, locked, messages added, flushes
    log,         \* the calls made on the store, in order, with their caller
    queue,       \* the executor's work queue: positions not yet taken
    futures,     \* one future per position of data submitted so far
    workers,     \* the positions the worker threads hold: taken off the
                 \* queue and not done with; one thread holds one position
    fs,          \* the map iterator's futures not yet yielded, by position
    thread,      \* what is left to append of the thread being drained
    wiki_thread, \* the list thread_wiki returned
    ticks,       \* bar.tick() calls
    completed    \* the positions of data in the order their builds ended

vars == <<argv, remote, run, prevIds, pc, exitcode, error, opts, data, repo,
          mb, log, queue, futures, workers, fs, thread, wiki_thread, ticks,
          completed>>

source == <<argv, remote>>
pool   == <<queue, futures, workers, fs, completed>>

Unset == [unset |-> TRUE]

NoStore == [opened |-> FALSE, locked |-> FALSE, msgs |-> << >>,
            flushes |-> 0, closed |-> FALSE]

MsgIds(msgs) == [i \in 1..Len(msgs) |-> Header(msgs[i], "Message-ID")]

\* a store call made by main()
Call(op) == [by |-> "main", op |-> op]

Init ==
    /\ argv \in Argvs
    /\ remote \in [issues : IssueLists, wiki : WikiWalks]
    /\ run = 1 /\ prevIds = << >>
    /\ pc = "get_options" /\ exitcode = -1 /\ error = ""
    /\ opts = Unset /\ data = << >> /\ repo = Unset
    /\ mb = NoStore /\ log = << >>
    /\ queue = << >> /\ futures = << >> /\ workers = {} /\ fs = << >>
    /\ thread = << >> /\ wiki_thread = << >> /\ ticks = 0
    /\ completed = << >>

\* die(): message on stderr, sys.exit(1)
die(msg) ==
    /\ pc' = "exit" /\ exitcode' = 1 /\ error' = msg

\* an exception nobody catches leaves main(): traceback, exit status 1
crash(exc) ==
    /\ pc' = "crashed" /\ exitcode' = 1 /\ error' = exc

\* opts = get_options()
GetOptions ==
    /\ pc = "get_options"
    /\ opts' = parse_args(argv)
    /\ IF options_missing(parse_args(argv))
       THEN die("Missing option")
       ELSE pc' = "fetch_data" /\ UNCHANGED <<exitcode, error>>
    /\ UNCHANGED <<source, run, prevIds, data, repo, mb, log, pool, thread,
                   wiki_thread, ticks>>

\* variant: the handler reports the exception and returns the empty data
FetchData_returns ==
    /\ pc = "fetch_data"
    /\ \E ok \in BOOLEAN :
         IF ok
         THEN /\ data' = fetch_data(remote.issues)
              /\ repo' = get_repo(opts.repository)
              /\ pc' = "mbox" /\ UNCHANGED <<exitcode, error>>
         ELSE /\ data' = << >>
              /\ repo' = get_repo(opts.repository)
              /\ error' = "Github API exception"
              /\ pc' = "mbox" /\ UNCHANGED exitcode
    /\ UNCHANGED <<source, run, prevIds, opts, mb, log, pool, thread,
                   wiki_thread, ticks>>

\* data, repo = fetch_data(opts): a GithubException is turned into die()
FetchData ==
    /\ pc = "fetch_data"
    /\ \E ok \in BOOLEAN :
         IF ok
         THEN /\ data' = fetch_data(remote.issues)
              /\ repo' = get_repo(opts.repository)
              /\ pc' = "mbox" /\ UNCHANGED <<exitcode, error>>
         ELSE /\ die("Github API exception") /\ UNCHANGED <<data, repo>>
    /\ UNCHANGED <<source, run, prevIds, opts, mb, log, pool, thread,
                   wiki_thread, ticks>>

\* mb = mbox(opts.output)
OpenStore ==
    /\ pc = "mbox"
    /\ mb' = [mb EXCEPT !.opened = TRUE]
    /\ log' = Append(log, Call("open"))
    /\ pc' = "lock"
    /\ UNCHANGED <<source, run, prevIds, exitcode, error, opts, data, repo,
                   pool, thread, wiki_thread, ticks>>

\* variant: the mb.lock() call is missing
LockStore_missing ==
    /\ pc = "lock"
    /\ pc' = "archive_issues"
    /\ UNCHANGED <<source, run, prevIds, exitcode, error, opts, data, repo,
                   mb, log, pool, thread, wiki_thread, ticks>>

\* mb.lock()
LockStore ==
    /\ pc = "lock"
    /\ mb' = [mb EXCEPT !.locked = TRUE]
    /\ log' = Append(log, Call("lock"))
    /\ pc' = "archive_issues"
    /\ UNCHANGED <<source, run, prevIds, exitcode, error, opts, data, repo,
                   pool, thread, wiki_thread, ticks>>

\* "if opts.archive_issues:" and the entry of the two with blocks;
\* ThreadPoolExecutor(max_workers) raises ValueError unless max_workers > 0.
\* The executor starts its worker threads as work is submitted, at most
\* max_workers of them; the threads run the same loop and are told apart
\* only by the position each one holds.
StartIssues ==
    /\ pc = "archive_issues"
    /\ IF ~ opts.archive_issues
       THEN /\ pc' = "archive_wiki"
            /\ UNCHANGED <<exitcode, error, pool>>
       ELSE IF opts.threads <= 0
       THEN /\ crash("ValueError")
            /\ UNCHANGED pool
       ELSE /\ queue' = << >>
            /\ futures' = << >>
            /\ workers' = {}
            /\ fs' = << >>
            /\ completed' = << >>
            /\ pc' = "submit"
            /\ UNCHANGED <<exitcode, error>>
    /\ UNCHANGED <<source, run, prevIds, opts, data, repo, mb, log, thread,
                   wiki_thread, ticks>>

\* Exec.map submits the tasks one at a time, in the order of data: each
\* submit() makes a pending future and puts the work item in the queue, and
\* the workers run while main is still submitting
Submit ==
    /\ pc = "submit"
    /\ Len(futures) < Len(data)
    /\ futures' = Append(futures, [state |-> "pending", exception |-> "",
                                   result |-> << >>])
    /\ queue' = Append(queue, Len(futures) + 1)
    /\ fs' = Append(fs, Len(futures) + 1)
    /\ UNCHANGED <<source, run, prevIds, pc, exitcode, error, opts, data,
                   repo, mb, log, workers, thread, wiki_thread, ticks,
                   completed>>

\* every task is submitted: Exec.map returns its iterator and the for loop
\* asks for the first result
MapReturn ==
    /\ pc = "submit"
    /\ Len(futures) = Len(data)
    /\ pc' = "drain"
    /\ UNCHANGED <<source, run, prevIds, exitcode, error, opts, data, repo,
                   mb, log, pool, thread, wiki_thread, ticks>>

\* a worker thread that holds nothing takes the oldest work item off the
\* queue (work_queue.get()); the item's future is not set running yet
WorkerTake ==
    /\ queue # << >>
    /\ Cardinality(workers) < opts.threads
    /\ workers' = workers \cup {Head(queue)}
    /\ queue' = Tail(queue)
    /\ UNCHANGED <<source, run, prevIds, pc, exitcode, error, opts, data,
                   repo, mb, log, futures, fs, thread, wiki_thread, ticks,
                   completed>>

\* the worker that took position p runs the item: set_running_or_notify_cancel()
\* sets the future running and make_thread is called, or finds the future
\* cancelled and the worker drops the item
WorkerRun(p) ==
    /\ p \in workers
    /\ futures[p].state \in {"pending", "cancelled"}
    /\ IF futures[p].state = "pending"
       THEN /\ futures' = [futures EXCEPT ![p].state = "running"]
            /\ UNCHANGED workers
       ELSE /\ workers' = workers \ {p}
            /\ UNCHANGED futures
    /\ UNCHANGED <<source, run, prevIds, pc, exitcode, error, opts, data,
                   repo, mb, log, queue, fs, thread, wiki_thread, ticks,
                   completed>>

\* variant: the worker ends without setting its future
WorkerFinish_lost(p) ==
    /\ p \in workers
    /\ futures[p].state = "running"
    /\ workers' = workers \ {p}
    /\ completed' = Append(completed, p)
    /\ UNCHANGED <<source, run, prevIds, pc, exitcode, error, opts, data,
                   repo, mb, log, queue, futures, fs, thread, wiki_thread,
                   ticks>>

\* variant: make_thread adds the messages it built to the store itself
WorkerFinish_adds(p) ==
    /\ p \in workers
    /\ futures[p].state = "running"
    /\ \E ok \in BOOLEAN :
         LET o   == data[p]
             exc == IF ~ ok THEN "GithubException"
                    ELSE IF make_thread_raises(opts, repo, o)
                         THEN "RenderError" ELSE ""
         IN  /\ futures' = [futures EXCEPT ![p] =
                              [state |-> "finished", exception |-> exc,
                               result |-> IF exc = ""
                                          THEN make_thread(opts, repo, o)
                                          ELSE << >>]]
             /\ mb' = [mb EXCEPT !.msgs =
                         @ \o (IF exc = "" THEN make_thread(opts, repo, o)
                               ELSE << >>)]
             /\ log' = log \o (IF exc = ""
                               THEN <<[by |-> "worker", op |-> "add"]>>
                               ELSE << >>)
    /\ workers' = workers \ {p}
    /\ completed' = Append(completed, p)
    /\ UNCHANGED <<source, run, prevIds, pc, exitcode, error, opts, data,
                   repo, queue, fs, thread, wiki_thread, ticks>>

\* the worker's make_thread call returns, or raises (a lazy tracker request
\* made while building fails); the future keeps the outcome
WorkerFinish(p) ==
    /\ p \in workers
    /\ futures[p].state = "running"
    /\ \E ok \in BOOLEAN :
         LET o   == data[p]
             exc == IF ~ ok THEN "GithubException"
                    ELSE IF make_thread_raises(opts, repo, o)
                         THEN "RenderError" ELSE ""
         IN  futures' = [futures EXCEPT ![p] =
                           [state |-> "finished", exception |-> exc,
                            result |-> IF exc = ""
                                       THEN make_thread(opts, repo, o)
                                       ELSE << >>]]
    /\ workers' = workers \ {p}
    /\ completed' = Append(completed, p)
    /\ UNCHANGED <<source, run, prevIds, pc, exitcode, error, opts, data,
                   repo, mb, log, queue, fs, thread, wiki_thread, ticks>>

\* variant: results are taken from the newest future first
map_next_newest(remaining) == remaining[Len(remaining)]

\* the future whose result Exec.map yields next: the oldest one submitted
map_next(remaining) == Head(remaining)

\* variant: the exception of a build is caught per issue and the drain goes on
Yield_isolating ==
    /\ pc = "drain"
    /\ fs # << >>
    /\ futures[map_next(fs)].state = "finished"
    /\ fs' = SelectSeq(fs, LAMBDA p : p # map_next(fs))
    /\ IF futures[map_next(fs)].exception # ""
       THEN /\ error' = futures[map_next(fs)].exception
            /\ UNCHANGED <<pc, queue, futures, thread, ticks>>
       ELSE /\ ticks' = ticks + 1
            /\ thread' = futures[map_next(fs)].result
            /\ pc' = "append"
            /\ UNCHANGED <<queue, futures, error>>
    /\ UNCHANGED <<source, run, prevIds, exitcode, opts, data, repo, mb, log,
                   workers, wiki_thread, completed>>

\* the map iterator yields the result of its next future, or re-raises that
\* future's exception: the iterator then cancels the futures not set running
\* yet (their work items stay where they are, in the queue or with the worker
\* that took them) and the with block waits for the workers.  After a
\* result: bar.tick().
Yield ==
    /\ pc = "drain"
    /\ fs # << >>
    /\ futures[map_next(fs)].state = "finished"
    /\ fs' = SelectSeq(fs, LAMBDA p : p # map_next(fs))
    /\ IF futures[map_next(fs)].exception # ""
       THEN /\ pc' = "unwind"
            /\ error' = futures[map_next(fs)].exception
            /\ UNCHANGED queue
            /\ futures' = [i \in 1..Len(futures) |->
                             IF futures[i].state = "pending"
                             THEN [futures[i] EXCEPT !.state = "cancelled"]
                             ELSE futures[i]]
            /\ UNCHANGED <<thread, ticks>>
       ELSE /\ ticks' = ticks + 1
            /\ thread' = futures[map_next(fs)].result
            /\ pc' = "append"
            /\ UNCHANGED <<queue, futures, error>>
    /\ UNCHANGED <<source, run, prevIds, exitcode, opts, data, repo, mb, log,
                   workers, wiki_thread, completed>>

\* variant: the message is added twice
Add_twice ==
    /\ pc = "append"
    /\ mb' = [mb EXCEPT !.msgs = Append(Append(@, Head(thread)), Head(thread))]
    /\ log' = Append(Append(log, Call("add")), Call("add"))
    /\ thread' = Tail(thread)
    /\ pc' = IF Tail(thread) = << >> THEN "drain" ELSE "append"
    /\ UNCHANGED <<source, run, prevIds, exitcode, error, opts, data, repo,
                   pool, wiki_thread, ticks>>

\* variant: a second bar.tick() after the inner loop
Add_tick_after ==
    /\ pc = "append"
    /\ mb' = [mb EXCEPT !.msgs = Append(@, Head(thread))]
    /\ log' = Append(log, Call("add"))
    /\ thread' = Tail(thread)
    /\ pc' = IF Tail(thread) = << >> THEN "drain" ELSE "append"
    /\ ticks' = IF Tail(thread) = << >> THEN ticks + 1 ELSE ticks
    /\ UNCHANGED <<source, run, prevIds, exitcode, error, opts, data, repo,
                   pool, wiki_thread>>

\* mb.add(msg) for the next message of the issue thread
Add ==
    /\ pc = "append"
    /\ mb' = [mb EXCEPT !.msgs = Append(@, Head(thread))]
    /\ log' = Append(log, Call("add"))
    /\ thread' = Tail(thread)
    /\ pc' = IF Tail(thread) = << >> THEN "drain" ELSE "append"
    /\ UNCHANGED <<source, run, prevIds, exitcode, error, opts, data, repo,
                   pool, wiki_thread, ticks>>

\* the map iterator is exhausted; the with blocks are left
PoolExit ==
    /\ pc = "drain"
    /\ fs = << >>
    /\ pc' = "archive_wiki"
    /\ UNCHANGED <<source, run, prevIds, exitcode, error, opts, data, repo,
                   mb, log, pool, thread, wiki_thread, ticks>>

\* the exception of a build leaves main() once the workers have stopped:
\* leaving the with block joins them, and they stop when the queue is empty
Unwind ==
    /\ pc = "unwind"
    /\ queue = << >>
    /\ workers = {}
    /\ pc' = "crashed" /\ exitcode' = 1
    /\ UNCHANGED <<source, run, prevIds, error, opts, data, repo, mb, log,
                   pool, thread, wiki_thread, ticks>>

\* "if opts.archive_wiki:" and the thread_wiki(repo) call; clone_repository
\* may raise
ArchiveWiki ==
    /\ pc = "archive_wiki"
    /\ IF ~ opts.archive_wiki
       THEN /\ pc' = "flush"
            /\ UNCHANGED <<exitcode, error, thread, wiki_thread>>
       ELSE \E ok \in BOOLEAN, DIR \in TmpDirs, clock \in Clocks(remote.wiki) :
              IF ~ ok
              THEN crash("GitError") /\ UNCHANGED <<thread, wiki_thread>>
              ELSE IF thread_wiki_raises(repo, DIR, remote.wiki)
              THEN crash("RenderError") /\ UNCHANGED <<thread, wiki_thread>>
              ELSE /\ wiki_thread' = thread_wiki(repo, DIR, remote.wiki, clock)
                   /\ thread' = wiki_thread'
                   /\ pc' = IF wiki_thread' = << >> THEN "flush" ELSE "wiki_add"
                   /\ UNCHANGED <<exitcode, error>>
    /\ UNCHANGED <<source, run, prevIds, opts, data, repo, mb, log, pool,
                   ticks>>

\* variant: the wiki message is put in front of what the store holds
WikiAdd_front ==
    /\ pc = "wiki_add"
    /\ mb' = [mb EXCEPT !.msgs = <<Head(thread)>> \o @]
    /\ log' = Append(log, Call("add"))
    /\ thread' = Tail(thread)
    /\ pc' = IF Tail(thread) = << >> THEN "flush" ELSE "wiki_add"
    /\ UNCHANGED <<source, run, prevIds, exitcode, error, opts, data, repo,
                   pool, wiki_thread, ticks>>

\* mb.add(msg) for the next message of the wiki thread
WikiAdd ==
    /\ pc = "wiki_add"
    /\ mb' = [mb EXCEPT !.msgs = Append(@, Head(thread))]
    /\ log' = Append(log, Call("add"))
    /\ thread' = Tail(thread)
    /\ pc' = IF Tail(thread) = << >> THEN "flush" ELSE "wiki_add"
    /\ UNCHANGED <<source, run, prevIds, exitcode, error, opts, data, repo,
                   pool, wiki_thread, ticks>>

\* mb.flush()
Flush ==
    /\ pc = "flush"
    /\ mb' = [mb EXCEPT !.flushes = @ + 1]
    /\ log' = Append(log, Call("flush"))
    /\ pc' = "unlock"
    /\ UNCHANGED <<source, run, prevIds, exitcode, error, opts, data, repo,
                   pool, thread, wiki_thread, ticks>>

\* mb.unlock()
Unlock ==
    /\ pc = "unlock"
    /\ mb' = [mb EXCEPT !.locked = FALSE]
    /\ log' = Append(log, Call("unlock"))
    /\ pc' = "close"
    /\ UNCHANGED <<source, run, prevIds, exitcode, error, opts, data, repo,
                   pool, thread, wiki_thread, ticks>>

\* mb.close(); return 0
Close ==
    /\ pc = "close"
    /\ mb' = [mb EXCEPT !.closed = TRUE]
    /\ log' = Append(log, Call("close"))
    /\ pc' = "done" /\ exitcode' = 0
    /\ UNCHANGED <<source, run, prevIds, error, opts, data, repo, pool,
                   thread, wiki_thread, ticks>>

\* the program is started again with the same command line on the same,
\* unchanged source
Rerun ==
    /\ pc = "done"
    /\ run < MaxRuns
    /\ run' = run + 1
    /\ prevIds' = MsgIds(mb.msgs)
    /\ pc' = "get_options" /\ exitcode' = -1 /\ error' = ""
    /\ opts' = Unset /\ data' = << >> /\ repo' = Unset
    /\ mb' = NoStore /\ log' = << >>
    /\ queue' = << >> /\ futures' = << >> /\ workers' = {} /\ fs' = << >>
    /\ thread' = << >> /\ wiki_thread' = << >> /\ ticks' = 0
    /\ completed' = << >>
    /\ UNCHANGED source

Next ==
    \/ GetOptions
    \/ FetchData
    \/ OpenStore
    \/ LockStore
    \/ StartIssues
    \/ Submit
    \/ MapReturn
    \/ WorkerTake
    \/ \E p \in 1..MaxIssues : WorkerRun(p)
    \/ \E p \in 1..MaxIssues : WorkerFinish(p)
    \/ Yield
    \/ Add
    \/ PoolExit
    \/ Unwind
    \/ ArchiveWiki
    \/ WikiAdd
    \/ Flush
    \/ Unlock
    \/ Close

\* one run of the program
Spec == Init /\ [][Next]_vars

\* the steps of the main thread
MainStep ==
    \/ GetOptions \/ FetchData \/ OpenStore \/ LockStore \/ StartIssues
    \/ Submit \/ MapReturn \/ Yield \/ Add \/ PoolExit \/ Unwind \/ ArchiveWiki \/ WikiAdd
    \/ Flush \/ Unlock \/ Close

\* one run under a fair scheduler: the main thread and every pool worker
\* that can take a step eventually takes one
FairSpec ==
    /\ Init /\ [][Next]_vars
    /\ WF_vars(MainStep)
    /\ WF_vars(WorkerTake)
    /\ \A p \in 1..MaxIssues :
          WF_vars(WorkerRun(p)) /\ WF_vars(WorkerFinish(p))

\* the program run again on the unchanged source
NextRerun == Next \/ Rerun

SpecRerun == Init /\ [][NextRerun]_vars

TypeOK ==
    /\ pc \in {"get_options", "fetch_data", "mbox", "lock", "archive_issues",
               "submit", "drain", "append", "unwind", "archive_wiki", "wiki_add",
               "flush", "unlock", "close", "done", "exit", "crashed"}
    /\ exitcode \in {-1, 0, 1}
    /\ run \in 1..MaxRuns

\* ================================================================ claims
\* the builds that returned a thread
Built == {i \in DOMAIN futures :
            futures[i].state = "finished" /\ futures[i].exception = ""}

\* the source body of message j of the thread of data[i]
BodyOf(i, j) == IF j = 1 THEN data[i].issue.body
                ELSE data[i].comments[j - 1].body

IsPrefix(s, t) == Len(s) <= Len(t) /\ s = SubSeq(t, 1, Len(s))

\* the messages of issue threads in the store (their identifiers start
\* with "<", the wiki's with a digest)
IsIssueMsg(m) == SubSeq(Header(m, "Message-ID"), 1, 1) = "<"
IssueMsgs == SelectSeq(mb.msgs, IsIssueMsg)
WikiMsgs  == SelectSeq(mb.msgs, LAMBDA m : ~ IsIssueMsg(m))

\* C1: for every issue with k comments, make_thread returns exactly k+1
\* messages: the root (comment id 0, the issue's author and date) first, then
\* one reply per comment, the j-th reply built from the j-th comment.
C1_ThreadShape ==
    \A i \in Built :
        LET t == futures[i].result
            o == data[i]
        IN  /\ Len(t) = Len(o.comments) + 1
            /\ Header(t[1], "Message-ID")
                 = h_message_id(repo.full_name, o.issue.id, 0)
            /\ Header(t[1], "From") = h_from(o.issue)
            /\ Header(t[1], "Date") = h_date(o.issue)
            /\ \A j \in 1..Len(o.comments) :
                 /\ Header(t[j + 1], "Message-ID")
                      = h_message_id(repo.full_name, o.issue.id,
                                     o.comments[j].id)
                 /\ Header(t[j + 1], "From") = h_from(o.comments[j])
                 /\ Header(t[j + 1], "Date") = h_date(o.comments[j])

\* a thread of an issue with two or more comments and one of an issue
\* without comments have both been built
C1_Witness ==
    \E i, j \in Built :
        /\ Len(data[i].comments) >= 2 /\ Len(futures[i].result) >= 3
        /\ Len(data[j].comments) = 0 /\ Len(futures[j].result) = 1

\* C2: in every issue thread each reply carries In-Reply-To and References
\* both equal to the Message-ID of the thread's root, and the root carries
\* neither header.
C2_FlatThreading ==
    \A i \in Built :
        LET t == futures[i].result
        IN  /\ ~ HasHeader(t[1], "In-Reply-To")
            /\ ~ HasHeader(t[1], "References")
            /\ \A j \in 2..Len(t) :
                 /\ HasHeader(t[j], "In-Reply-To")
                 /\ HasHeader(t[j], "References")
                 /\ Header(t[j], "In-Reply-To") = Header(t[1], "Message-ID")
                 /\ Header(t[j], "References") = Header(t[1], "Message-ID")
                 /\ Header(t[j], "Message-ID") # Header(t[1], "Message-ID")

\* a thread with two replies has been built and appended
C2_Witness ==
    /\ pc = "done"
    /\ \E i \in Built : Len(futures[i].result) >= 3
    /\ \E a \in 1..Len(mb.msgs) : HasHeader(mb.msgs[a], "In-Reply-To")

\* the position in data of the issue a stored issue message belongs to
IssuePosOf(m) ==
    CHOOSE i \in 1..Len(data) :
        Header(m, "Message-ID") \in
            { h_message_id(repo.full_name, data[i].issue.id, c) :
                c \in {0} \cup {data[i].comments[j].id :
                                   j \in 1..Len(data[i].comments)} }

\* what one worker appends for the issues: the threads one after another
RECURSIVE Sequential(_)
Sequential(n) ==
    IF n = 0 THEN << >>
    ELSE Sequential(n - 1) \o make_thread(opts, repo, data[n])

\* C3: for every worker count and completion order the issue threads are
\* appended in the order of the issue list: messages of an earlier issue
\* come before those of a later one, and what is in the store is at all times
\* the beginning of what a single worker appends.
C3_InputOrder ==
    (repo # Unset) =>
        /\ mb.msgs # << >> =>
              LET stored == IssueMsgs
              IN  /\ \A a \in 1..(Len(stored) - 1) :
                        IssuePosOf(stored[a]) <= IssuePosOf(stored[a + 1])
                  /\ IsPrefix(stored, Sequential(Len(data)))
        /\ (pc = "done" /\ opts.archive_issues)
              => IssueMsgs = Sequential(Len(data))

\* two workers, the second issue's build ended before the first's, and
\* both threads are in the store
C3_Witness ==
    /\ pc = "done"
    /\ opts.threads >= 2
    /\ Len(completed) >= 2 /\ completed[1] = 2 /\ completed[2] = 1
    /\ Len(IssueMsgs) >= 3

\* the positions of log at which op was called
Calls(op) == {i \in 1..Len(log) : log[i].op = op}

\* C4: the lock is taken before the first append, no append comes after the
\* flush or the unlock, there is one flush, the unlock comes after the flush
\* and the close after the unlock; the store is locked whenever it holds an
\* appended message that is not yet flushed.
C4_LockDiscipline ==
    /\ \A a \in Calls("add") :
          /\ \E l \in Calls("lock") : l < a
          /\ \A f \in Calls("flush") : a < f
          /\ \A u \in Calls("unlock") : a < u
    /\ Cardinality(Calls("flush")) <= 1
    /\ \A u \in Calls("unlock") : \E f \in Calls("flush") : f < u
    /\ \A c \in Calls("close") : \E u \in Calls("unlock") : u < c
    /\ (mb.msgs # << >> /\ mb.flushes = 0) => mb.locked
    /\ pc = "done" => Cardinality(Calls("flush")) = 1

\* a run that appended several messages has ended
C4_Witness ==
    /\ pc = "done"
    /\ Cardinality(Calls("add")) >= 2
    /\ Calls("lock") # {} /\ Calls("unlock") # {}

\* a part of m is the plain text body
HasPlain(m, body) ==
    \E k \in 1..Len(m.payload) :
        m.payload[k].subtype = "plain" /\ m.payload[k].text = body

\* C5: when the hypertext conversion of a body fails, the message returned
\* by render_message still contains the plain-text part with that body.
C5_PlainTextKept ==
    \A i \in Built :
        \A j \in 1..Len(futures[i].result) :
            markdown_raises(BodyOf(i, j))
                => HasPlain(futures[i].result[j], BodyOf(i, j))

\* the headers render_message was given for a root, and for a reply
RootHeaders  == {"Subject", "From", "To", "Date", "Message-ID"}
ReplyHeaders == RootHeaders \cup {"In-Reply-To", "References"}

\* C6: a failing hypertext conversion never ends a build or the run: no
\* build and no run ends on a rendering exception, the thread of an issue
\* with a failing body still has its k+1 messages, each with all its headers,
\* and a run that ends normally has flushed and unlocked the store.
C6_RenderFaultContained ==
    /\ error # "RenderError"
    /\ \A i \in DOMAIN futures : futures[i].exception # "RenderError"
    /\ \A i \in Built :
          LET t == futures[i].result
          IN  /\ Len(t) = Len(data[i].comments) + 1
              /\ \A j \in 1..Len(t) :
                    markdown_raises(BodyOf(i, j)) =>
                        \A h \in (IF j = 1 THEN RootHeaders ELSE ReplyHeaders) :
                            HasHeader(t[j], h)
    /\ pc = "done" => (mb.flushes = 1 /\ ~ mb.locked)

\* a run with a failing body in an issue thread and one in the wiki thread
\* has appended both degraded messages and ended normally
C6_Witness ==
    /\ pc = "done"
    /\ \E a \in 1..Len(IssueMsgs) : IssueMsgs[a].payload = << >>
    /\ \E a \in 1..Len(WikiMsgs) : WikiMsgs[a].payload = << >>
    /\ \E i \in Built : \E j \in 2..Len(futures[i].result) :
          markdown_raises(BodyOf(i, j))

\* C7: any two distinct messages appended in one run have different
\* Message-IDs.
C7_UniqueIds ==
    \A a, b \in 1..Len(mb.msgs) :
        a # b => Header(mb.msgs[a], "Message-ID")
                    # Header(mb.msgs[b], "Message-ID")

\* two issue roots, replies, the wiki root and another wiki page are stored
C7_Witness ==
    /\ pc = "done"
    /\ Cardinality({a \in 1..Len(IssueMsgs) :
                       ~ HasHeader(IssueMsgs[a], "In-Reply-To")}) >= 2
    /\ \E a \in 1..Len(IssueMsgs) : HasHeader(IssueMsgs[a], "In-Reply-To")
    /\ Len(WikiMsgs) >= 2

\* C8: a second run on the unchanged source assigns every message the
\* Message-ID the first run assigned to it.
C8_SameIdsOnRerun ==
    (run > 1 /\ pc = "done") => MsgIds(mb.msgs) = prevIds

\* the root Subject of each issue of the pool, with and without --labels
ExpectedSubject(id, labels) ==
    CASE id = 1  -> "Add docs"
      [] id = 7  -> IF labels THEN "Crash on startup [bug] [CLOSED]"
                    ELSE "Crash on startup"
      [] id = 12 -> IF labels THEN "Typo [docs] [easy]" ELSE "Typo"
      [] id = 30 -> IF labels THEN "Question [CLOSED]" ELSE "Question"

\* C9: with label decoration the root Subject is the title, " [name]" per
\* label in label order, then " [CLOSED]" for a closed issue; without it the
\* bare title; every reply's Subject is "Re: " followed by the root's.
C9_Subject ==
    \A i \in Built :
        LET t == futures[i].result
        IN  /\ Header(t[1], "Subject")
                 = ExpectedSubject(data[i].issue.id, opts.labels)
            /\ \A j \in 2..Len(t) :
                 Header(t[j], "Subject") = "Re: " \o Header(t[1], "Subject")

\* the closed, labelled issue has been built with its replies, decorated
C9_Witness ==
    \E i \in Built :
        /\ opts.labels
        /\ data[i].issue.id = 7
        /\ Len(futures[i].result) >= 3
        /\ Header(futures[i].result[1], "Subject")
             = "Crash on startup [bug] [CLOSED]"

\* thread_wiki has returned its list
WikiReturned ==
    /\ pc \in {"wiki_add", "flush", "unlock", "close", "done"}
    /\ opts.archive_wiki

\* a directory of the clone that is version-control metadata: .git itself
\* or a directory below it
UnderGit(rel) ==
    \/ rel = "/.git"
    \/ (Len(rel) >= 6 /\ SubSeq(rel, 1, 6) = "/.git/")

\* the names of the files with the markup suffix outside .git, in walk order
RECURSIVE MarkupPages(_)
MarkupPages(walk) ==
    IF walk = << >> THEN << >>
    ELSE (IF UnderGit(Head(walk).rel) THEN << >>
          ELSE LET names == [k \in 1..Len(Head(walk).f) |-> Head(walk).f[k].name]
               IN  SelectSeq(names,
                      LAMBDA n : Len(n) >= 3
                                 /\ SubSeq(n, Len(n) - 2, Len(n)) = ".md"))
         \o MarkupPages(Tail(walk))

\* the subject thread_wiki gives the page of file ff: "[WIKI] " and the name
\* without its suffix
PageSubject(ff) == "[WIKI] " \o SubSeq(ff, 1, Len(ff) - 3)

\* the first markup page the walk meets outside .git is the root: it has a
\* message, the first of the thread, with the wiki-root identifier and no
\* In-Reply-To/References
C10_RootIsFirstPage ==
    WikiReturned /\ MarkupPages(remote.wiki) # << >> =>
        /\ wiki_thread # << >>
        /\ Header(wiki_thread[1], "Subject")
             = PageSubject(MarkupPages(remote.wiki)[1])
        /\ Header(wiki_thread[1], "Message-ID")
             = hexhex(repo.full_name) \o "@wiki"
        /\ ~ HasHeader(wiki_thread[1], "In-Reply-To")
        /\ ~ HasHeader(wiki_thread[1], "References")

\* every page message after the first replies to the first one, however many
\* pages precede it
C10_FlatReplies ==
    \A j \in 2..Len(wiki_thread) :
        /\ HasHeader(wiki_thread[j], "In-Reply-To")
        /\ HasHeader(wiki_thread[j], "References")
        /\ Header(wiki_thread[j], "In-Reply-To")
             = Header(wiki_thread[1], "Message-ID")
        /\ Header(wiki_thread[j], "References")
             = Header(wiki_thread[1], "Message-ID")
        /\ Header(wiki_thread[j], "Message-ID")
             # Header(wiki_thread[1], "Message-ID")

\* C10: in the wiki thread the first markup page met by the directory walk
\* is the only root (the wiki-root identifier, no In-Reply-To/References) and
\* every other page message carries In-Reply-To and References equal to the
\* root's Message-ID.
C10_WikiRoot == C10_RootIsFirstPage /\ C10_FlatReplies

\* a wiki thread of three pages, two of them replies, has been appended
C10_ThreePages ==
    /\ pc = "done"
    /\ Len(wiki_thread) = 3
    /\ Len(WikiMsgs) = 3

\* C11: thread_wiki returns exactly one message per file of the cloned tree
\* whose name ends in .md, in walk order, leaving out only the files without
\* that suffix and the version-control metadata under .git.
C11_OnePerPage ==
    WikiReturned =>
        /\ Len(wiki_thread) = Len(MarkupPages(remote.wiki))
        /\ \A j \in 1..Len(wiki_thread) :
              Header(wiki_thread[j], "Subject")
                 = "[WIKI] " \o SubSeq(MarkupPages(remote.wiki)[j], 1,
                                       Len(MarkupPages(remote.wiki)[j]) - 3)


\* the process has ended
Ended == pc \in {"done", "exit", "crashed"}

\* C12: the lock main took is released on every exit path: when a build,
\* the wiki build, the pool setup or an append fails after mb.lock(), the
\* run still unlocks the store before it ends.
C12_UnlockedAtExit ==
    Ended => ~ mb.locked

\* one of --user, --password, --repository is not on the command line
OptionNotSupplied ==
    \/ "user" \notin DOMAIN argv
    \/ "password" \notin DOMAIN argv
    \/ "repository" \notin DOMAIN argv

\* C13: when one of --user, --password, --repository is not supplied, the
\* run ends with a non-zero status before any tracker request and before the
\* store is opened, locked or written.
C13_MissingOptionFatal ==
    OptionNotSupplied =>
        /\ pc \in {"get_options", "exit"}
        /\ pc = "exit" => exitcode = 1
        /\ data = << >> /\ repo = Unset
        /\ mb = NoStore /\ log = << >>


\* C14: with issue and wiki archiving both enabled, every issue-thread
\* message is appended before any wiki-thread message (all issue threads are
\* in the store when the first wiki message arrives), and the wiki messages
\* are appended in the order thread_wiki returned them.
C14_IssuesThenWiki ==
    (repo # Unset) =>
        /\ mb.msgs = IssueMsgs \o WikiMsgs
        /\ IsPrefix(WikiMsgs, wiki_thread)
        /\ (WikiMsgs # << >> /\ opts.archive_issues)
              => IssueMsgs = Sequential(Len(data))
        /\ (pc = "done" /\ opts.archive_wiki) => WikiMsgs = wiki_thread

\* a run with both enabled has stored an issue thread and two wiki pages
C14_Witness ==
    /\ pc = "done"
    /\ opts.archive_issues /\ opts.archive_wiki
    /\ Len(IssueMsgs) >= 2
    /\ Len(WikiMsgs) >= 2


\* the positions whose future the map iterator has taken
Yielded == {i \in DOMAIN futures : \A k \in 1..Len(fs) : fs[k] # i}

\* C15: for every issue thread there is exactly one progress tick, reported
\* after the thread's build has ended and before the first of the thread's
\* messages is appended: the ticks count the threads the drain has received,
\* and only messages of those threads are in the store.
C15_TickBeforeAppend ==
    (repo # Unset) =>
        /\ ticks = Cardinality({i \in Yielded : futures[i].exception = ""})
        /\ \A i \in Yielded : futures[i].state = "finished"
        /\ \A a \in 1..Len(IssueMsgs) :
              /\ IssuePosOf(IssueMsgs[a]) \in Yielded
              /\ futures[IssuePosOf(IssueMsgs[a])].exception = ""
        /\ pc = "done" /\ opts.archive_issues => ticks = Len(data)

\* the second thread has been ticked and none of its messages is in the
\* store yet
C15_Witness ==
    /\ pc = "append"
    /\ ticks = 2
    /\ thread = futures[2].result
    /\ IssueMsgs # << >>
    /\ \A a \in 1..Len(IssueMsgs) : IssuePosOf(IssueMsgs[a]) = 1


\* C16: concurrency is confined to message construction: every call on the
\* store is made by main, every stored message was put there by one of
\* main's add calls, and a step that touches the store is never a step of a
\* worker (it leaves the workers and the futures as they are).
C16_WorkersNeverWrite ==
    /\ [](/\ \A i \in 1..Len(log) : log[i].by = "main"
          /\ Len(mb.msgs) = Cardinality(Calls("add")))
    /\ [][(mb' # mb \/ log' # log)
             => (workers' = workers /\ futures' = futures
                 /\ completed' = completed)]_vars

\* main is appending while a worker is still building another thread
C16_Witness ==
    /\ pc = "append"
    /\ mb.msgs # << >>
    /\ \E p \in workers : futures[p].state = "running"


\* the position of the build whose exception the map iterator re-raised
FailedPos == CHOOSE i \in Yielded : futures[i].exception # ""

\* C17: a failure of the tracker API ends the run with a non-zero status and
\* nothing is written for the issues after it: a failure during the fetch is
\* reported by die() before the store is opened or locked, with no message
\* appended; a failure during a build ends the run with status 1 and no
\* message of that issue or a later one in the store.
C17_ApiFailureAborts ==
    /\ error = "Github API exception" =>
          /\ pc = "exit" /\ exitcode = 1
          /\ mb = NoStore /\ log = << >>
    /\ error = "GithubException" =>
          /\ pc \in {"unwind", "crashed"}
          /\ pc = "crashed" => exitcode = 1
          /\ \A a \in 1..Len(IssueMsgs) : IssuePosOf(IssueMsgs[a]) < FailedPos
    /\ (Ended /\ exitcode = 0) => error = ""

\* the fetch of a tracker that holds issues has failed
C17_Witness ==
    /\ pc = "exit"
    /\ error = "Github API exception"
    /\ remote.issues # << >>
    /\ parse_args(argv).archive_issues

\* C18: a failure in the build of the issue at position i ends the whole
\* run: the store holds exactly the threads of the issues before i, no
\* message of issue i or a later issue and no wiki message, and the run stops
\* there with status 1 and nothing more appended or flushed.
C18_BuildFailureAborts ==
    (\E i \in Yielded : futures[i].exception # "")
        => /\ pc \in {"unwind", "crashed"}
           /\ error = futures[FailedPos].exception
           /\ IssueMsgs = Sequential(FailedPos - 1)
           /\ WikiMsgs = << >>
           /\ mb.msgs = IssueMsgs
           /\ mb.flushes = 0
           /\ ticks = FailedPos - 1
           /\ pc = "crashed" => exitcode = 1

\* the build of the second issue failed: the first thread stays in the
\* store, the wiki was to be archived and is not
C18_Witness ==
    /\ pc = "crashed"
    /\ error = "GithubException"
    /\ FailedPos = 2
    /\ Len(IssueMsgs) >= 1
    /\ opts.archive_wiki


\* the sum over the first n issues of (comment count + 1)
RECURSIVE ExpectedIssueCount(_)
ExpectedIssueCount(n) ==
    IF n = 0 THEN 0
    ELSE ExpectedIssueCount(n - 1) + Len(data[n].comments) + 1

\* C19: in a run where every build succeeds, make_thread runs exactly once
\* per issue and every message built is appended exactly once: from the
\* flush on, the store holds sum(comment count + 1) issue messages plus one
\* message per wiki page archived, namely the issue threads in order followed
\* by the wiki thread.
C19_NothingLostOrDuplicated ==
    pc \in {"unlock", "close", "done"} =>
        /\ Len(mb.msgs)
             = (IF opts.archive_issues THEN ExpectedIssueCount(Len(data)) ELSE 0)
               + Len(wiki_thread)
        /\ mb.msgs = (IF opts.archive_issues
                      THEN Sequential(Len(data)) ELSE << >>) \o wiki_thread
        /\ opts.archive_issues =>
              \A i \in 1..Len(data) :
                 Cardinality({k \in 1..Len(completed) : completed[k] = i}) = 1
        /\ ~ opts.archive_issues => completed = << >>

\* two issues built by two workers and a wiki of two pages have been flushed
C19_Witness ==
    /\ pc = "unlock"
    /\ opts.archive_issues /\ opts.archive_wiki /\ opts.threads >= 2
    /\ Len(data) >= 2
    /\ Len(wiki_thread) >= 2
    /\ Len(mb.msgs) >= 5


\* C20: under a fair scheduling of main and the workers every run ends; a
\* run in which nothing fails reaches the final state with every thread
\* drained, the store flushed once and the lock released; and the drain,
\* whenever it waits for a result, gets one (or its exception) or finds the
\* iterator exhausted.
C20_RunTerminates ==
    /\ <>Ended
    /\ ([](error = "")) =>
          <>(/\ pc = "done" /\ exitcode = 0
             /\ fs = << >> /\ thread = << >>
             /\ mb.flushes = 1 /\ ~ mb.locked)
    /\ (pc = "drain") ~> (pc \in {"append", "unwind", "archive_wiki"})

\* a run of two workers on two issues, the second built first, has ended
\* in the final state
C20_Witness ==
    /\ pc = "done" /\ error = ""
    /\ opts.threads >= 2
    /\ Len(completed) = 2 /\ completed[1] = 2
    /\ fs = << >>
    /\ mb.flushes = 1 /\ ~ mb.locked

=============================================================================
